---- MODULE Spec2Model ----
(***************************************************************************)
(* A model of markovchainbot: the text normaliser (text.py), the n-gram    *)
(* Markov chain (chain.py: training, prediction, continuation) and its    *)
(* JSON persistence (serialization.py).                                    *)
(*                                                                         *)
(* Strings are sequences of one-character strings.  A Python dict, whose   *)
(* iteration order is its insertion order, is a sequence of <<key, value>> *)
(* pairs with distinct keys; a Python set is a set.                        *)
(***************************************************************************)
EXTENDS Integers, Sequences, FiniteSets, TLC

VARIABLES
    model,      \* the MarkovChain instance: its fields
    history,    \* every raw message passed to add_messages so far, in order
    gen,        \* the running continue_sentence / predict_next_token call
    io          \* the file system and the running save / load / _pick_randomly call

vars == <<model, history, gen, io>>

(***************************************************************************)
(* Bounds of the model.                                                    *)
(***************************************************************************)
\* largest training_config.max_order tried
MaxOrder == 2
\* largest number of messages trained over all add_messages calls
MaxTrained == 3
\* largest number of add_messages calls
MaxCalls == 2
\* largest generation_config.max_length tried
MaxLength == 2
\* largest context passed to predict_next_token
MaxContext == 3
\* a draw of rng.random() is one of 0/ProbScale .. (ProbScale-1)/ProbScale, and a
\* configured probability one of 0/ProbScale .. ProbScale/ProbScale
ProbScale == 2

(***************************************************************************)
(* Generic helpers for insertion-ordered dicts (sequences of pairs).       *)
(***************************************************************************)
Range(s) == {s[i] : i \in DOMAIN s}

Keys(d) == {d[i][1] : i \in DOMAIN d}

Values(d) == {d[i][2] : i \in DOMAIN d}

HasKey(d, k) == \E i \in DOMAIN d : d[i][1] = k

\* d[k] for a key that is present
Get(d, k) == d[CHOOSE i \in DOMAIN d : d[i][1] = k][2]

\* d[k] = v: a present key keeps its place, a new key goes last
Put(d, k, v) ==
    IF HasKey(d, k)
    THEN [i \in DOMAIN d |-> IF d[i][1] = k THEN <<k, v>> ELSE d[i]]
    ELSE Append(d, <<k, v>>)

RECURSIVE SumCounts(_)
SumCounts(d) == IF d = <<>> THEN 0 ELSE d[1][2] + SumCounts(Tail(d))

Min(a, b) == IF a < b THEN a ELSE b

(***************************************************************************)
(* text.py: process_message.                                               *)
(***************************************************************************)
\* the letters of the model's alphabet, <<lower case, upper case>>
CasePairs ==
    { <<"a", "A">>, <<"b", "B">>, <<"d", "D">>, <<"e", "E">>, <<"h", "H">>,
      <<"n", "N">>, <<"p", "P">>, <<"r", "R">>, <<"s", "S">>, <<"t", "T">> }

LowerChars == {p[1] : p \in CasePairs}

UpperChars == {p[2] : p \in CasePairs}

\* the decimal digits, DIGITS[d + 1] being the digit of value d
DIGITS == <<"0", "1", "2", "3", "4", "5", "6", "7", "8", "9">>

DigitChars == Range(DIGITS)

\* \s
WhitespaceChars == {" "}

\* \w (which covers \d)
WordChars == LowerChars \cup UpperChars \cup DigitChars \cup {"_"}

\* the characters the first re.sub keeps besides \w and \s
KeptPunctuation == {"?", "!", "\"", "'", ":", "<", ">"}

START_MARKER == <<"<", "s", "t", "a", "r", "t", ">">>

END_MARKER == <<"<", "e", "n", "d", ">">>

HTTP_PREFIX == <<"h", "t", "t", "p">>

\* str.upper / str.lower on one character
UpperChar(c) == IF c \in LowerChars THEN (CHOOSE p \in CasePairs : p[1] = c)[2] ELSE c

LowerChar(c) == IF c \in UpperChars THEN (CHOOSE p \in CasePairs : p[2] = c)[1] ELSE c

Upper(word) == [i \in DOMAIN word |-> UpperChar(word[i])]

Lower(word) == [i \in DOMAIN word |-> LowerChar(word[i])]

\* re.sub(r"[^\w\d\s\?\!\"\':<>]", r"", message)
StripChars(message) ==
    SelectSeq(message, LAMBDA c : c \in WordChars \cup WhitespaceChars \cup KeptPunctuation)

\* re.sub(r"(\?|\!|;|~~)", r" \1", message), scanning from position i
RECURSIVE PadFrom(_, _)
PadFrom(message, i) ==
    IF i > Len(message) THEN <<>>
    ELSE IF message[i] \in {"?", "!", ";"}
         THEN <<" ", message[i]>> \o PadFrom(message, i + 1)
    ELSE IF i < Len(message) /\ message[i] = "~" /\ message[i + 1] = "~"
         THEN <<" ", "~", "~">> \o PadFrom(message, i + 2)
    ELSE <<message[i]>> \o PadFrom(message, i + 1)

PadPunctuation(message) == PadFrom(message, 1)

\* the first position after the whitespace run that starts at i
RECURSIVE EndOfRun(_, _)
EndOfRun(message, i) ==
    IF i <= Len(message) /\ message[i] \in WhitespaceChars
    THEN EndOfRun(message, i + 1)
    ELSE i

\* re.split(r"\s+|,|\.|;", message): the pieces from position i on, cur being
\* the piece read so far.  Adjacent separators leave empty pieces.
RECURSIVE SplitFrom(_, _, _)
SplitFrom(message, i, cur) ==
    IF i > Len(message) THEN <<cur>>
    ELSE IF message[i] \in WhitespaceChars
         THEN <<cur>> \o SplitFrom(message, EndOfRun(message, i), <<>>)
    ELSE IF message[i] \in {",", ".", ";"}
         THEN <<cur>> \o SplitFrom(message, i + 1, <<>>)
    ELSE SplitFrom(message, i + 1, Append(cur, message[i]))

SplitWords(message) == SplitFrom(message, 1, <<>>)

StartsWithHttp(word) ==
    Len(word) >= Len(HTTP_PREFIX) /\ SubSeq(word, 1, Len(HTTP_PREFIX)) = HTTP_PREFIX

\* word if (word.upper() == word or "<" in word) else word.lower()
CaseFold(word) ==
    IF Upper(word) = word \/ "<" \in Range(word) THEN word ELSE Lower(word)

\* a faulty variant, for comparison: the <start> marker is not prepended
process_messageNoStart(message) ==
    LET words  == SplitWords(PadPunctuation(StripChars(message))) \o <<END_MARKER>>
        kept   == SelectSeq(words, LAMBDA word : ~StartsWithHttp(word) /\ Len(word) > 0)
    IN  [i \in DOMAIN kept |-> CaseFold(kept[i])]

\* process_message(message)
process_message(message) ==
    LET words  == <<START_MARKER>> \o SplitWords(PadPunctuation(StripChars(message)))
                      \o <<END_MARKER>>
        kept   == SelectSeq(words, LAMBDA word : ~StartsWithHttp(word) /\ Len(word) > 0)
    IN  [i \in DOMAIN kept |-> CaseFold(kept[i])]

(***************************************************************************)
(* chain.py: the MarkovChain fields and training.                          *)
(*   word_to_token         dict word -> id                                 *)
(*   token_to_word         dict id -> word                                 *)
(*   vocabulary_token_ids  set of ids                                      *)
(*   chains                dict order -> dict context -> dict next token   *)
(*                         -> count, a context being a tuple of ids        *)
(*   current_token_id      the next id to hand out                         *)
(***************************************************************************)
\* MarkovChain(training_config=TrainingConfig(max_order), generation_config=cfg)
NewMarkovChain(max_order, cfg) ==
    [ max_order            |-> max_order,
      generation_config    |-> cfg,
      word_to_token        |-> <<>>,
      token_to_word        |-> <<>>,
      vocabulary_token_ids |-> {},
      chains               |-> <<>>,
      current_token_id     |-> 0 ]

\* a faulty variant, for comparison: a new word reuses the id of the last word instead of a fresh one
AddAsTokenStale(m, word) ==
    IF HasKey(m.word_to_token, word) THEN m
    ELSE LET id == IF m.current_token_id = 0 THEN 0 ELSE m.current_token_id - 1
         IN  [m EXCEPT
                !.word_to_token = Append(m.word_to_token, <<word, id>>),
                !.token_to_word = Put(m.token_to_word, id, word),
                !.vocabulary_token_ids = m.vocabulary_token_ids \cup {id},
                !.current_token_id = m.current_token_id + 1]

AddAsToken(m, word) ==
    IF HasKey(m.word_to_token, word) THEN m
    ELSE LET id == m.current_token_id
         IN  [m EXCEPT
                !.word_to_token = Append(m.word_to_token, <<word, id>>),
                !.token_to_word = Put(m.token_to_word, id, word),
                !.vocabulary_token_ids = m.vocabulary_token_ids \cup {id},
                !.current_token_id = id + 1]

RECURSIVE AddWordsAsTokens(_, _)
AddWordsAsTokens(m, words) ==
    IF words = <<>> THEN m
    ELSE AddWordsAsTokens(AddAsToken(m, Head(words)), Tail(words))

\* a faulty variant, for comparison: an existing count is overwritten with 1 instead of incremented
IncrementReplacing(transitions, next_token) == Put(transitions, next_token, 1)

\* chain[context][next_token] = chain[context].get(next_token, 0) + 1
Increment(transitions, next_token) ==
    Put(transitions, next_token,
        (IF HasKey(transitions, next_token) THEN Get(transitions, next_token) ELSE 0) + 1)

\* for i in range(len(tokens) - order), from the 1-based position i on
RECURSIVE AddPositions(_, _, _, _)
AddPositions(chain, tokens, order, i) ==
    IF i > Len(tokens) - order THEN chain
    ELSE LET context    == SubSeq(tokens, i, i + order - 1)
             next_token == tokens[i + order]
             old        == IF HasKey(chain, context) THEN Get(chain, context) ELSE <<>>
         IN  AddPositions(Put(chain, context, Increment(old, next_token)),
                          tokens, order, i + 1)

\* for order in range(1, max_order + 1), from order on
RECURSIVE AddOrders(_, _, _, _)
AddOrders(chains, tokens, max_order, order) ==
    IF order > max_order THEN chains
    ELSE LET chain == IF HasKey(chains, order) THEN Get(chains, order) ELSE <<>>
         IN  AddOrders(Put(chains, order, AddPositions(chain, tokens, order, 1)),
                       tokens, max_order, order + 1)

AddToChain(m, words) ==
    LET tokens == [i \in DOMAIN words |-> Get(m.word_to_token, words[i])]
    IN  [m EXCEPT !.chains = AddOrders(m.chains, tokens, m.max_order, 1)]

\* sorted(counts, key=counts.get, reverse=True): a stable sort, so that entries
\* of equal count keep their order.  Insert e after every entry that is >= it.
RECURSIVE InsertDesc(_, _)
InsertDesc(sorted, e) ==
    IF sorted = <<>> THEN <<e>>
    ELSE IF Head(sorted)[2] >= e[2] THEN <<Head(sorted)>> \o InsertDesc(Tail(sorted), e)
    ELSE <<e>> \o sorted

RECURSIVE SortDesc(_)
SortDesc(transitions) ==
    IF transitions = <<>> THEN <<>>
    ELSE InsertDesc(SortDesc(SubSeq(transitions, 1, Len(transitions) - 1)),
                    transitions[Len(transitions)])

SortChains(m) ==
    [m EXCEPT !.chains =
        [o \in DOMAIN m.chains |->
            <<m.chains[o][1],
              [c \in DOMAIN m.chains[o][2] |->
                  <<m.chains[o][2][c][1], SortDesc(m.chains[o][2][c][2])>>]>>]]

\* the body of the loop of add_messages, for the messages that are left
RECURSIVE AddEachMessage(_, _)
AddEachMessage(m, messages) ==
    IF messages = <<>> THEN m
    ELSE LET words == process_message(Head(messages))
         IN  AddEachMessage(AddToChain(AddWordsAsTokens(m, words), words), Tail(messages))

\* a faulty variant, for comparison: each call rebuilds the tables from its own messages only
add_messagesReplacing(m, messages) ==
    SortChains(AddEachMessage([m EXCEPT !.chains = <<>>], messages))

add_messages(m, messages) == SortChains(AddEachMessage(m, messages))

(***************************************************************************)
(* The outcome of a call: a value, or the exception it raises.             *)
(***************************************************************************)
Ok(v) == [ok |-> TRUE, value |-> v]

Raise(e) == [ok |-> FALSE, error |-> e]

\* the values rng.random() may return, in units of 1/ProbScale
Draws == 0..(ProbScale - 1)

(***************************************************************************)
(* text.py: levenshtein_distance.  A row is a Python list: row[k + 1] here *)
(* is row[k] there.                                                        *)
(***************************************************************************)
Min3(a, b, c) == Min(a, Min(b, c))

\* the inner loop, from idx_s1 (0-based) on, current_row being built so far
RECURSIVE LevInner(_, _, _, _, _)
LevInner(previous_row, current_row, s1, char_s2, idx_s1) ==
    IF idx_s1 >= Len(s1) THEN current_row
    ELSE LevInner(previous_row,
                  Append(current_row,
                         IF s1[idx_s1 + 1] = char_s2
                         THEN previous_row[idx_s1 + 1]
                         ELSE 1 + Min3(previous_row[idx_s1 + 1],
                                       previous_row[idx_s1 + 2],
                                       current_row[Len(current_row)])),
                  s1, char_s2, idx_s1 + 1)

\* the outer loop, from idx_s2 (0-based) on
RECURSIVE LevOuter(_, _, _, _)
LevOuter(previous_row, s1, s2, idx_s2) ==
    IF idx_s2 >= Len(s2) THEN previous_row
    ELSE LevOuter(LevInner(previous_row, <<idx_s2 + 1>>, s1, s2[idx_s2 + 1], 0),
                  s1, s2, idx_s2 + 1)

levenshtein_distance(a, b) ==
    LET s1  == IF Len(a) > Len(b) THEN b ELSE a
        s2  == IF Len(a) > Len(b) THEN a ELSE b
        row == LevOuter([k \in 1..(Len(s1) + 1) |-> k - 1], s1, s2, 0)
    IN  row[Len(row)]

(***************************************************************************)
(* chain.py: prediction.                                                   *)
(***************************************************************************)
\* _get_random_token, u being the member rng.choice picks
GetRandomToken(m, u) ==
    IF m.vocabulary_token_ids = {} THEN Raise("ValueError")
    ELSE Ok(u)

\* what rng.choice may pick: any id of the vocabulary (anything when it raises)
RandomChoices(m) ==
    IF m.vocabulary_token_ids = {} THEN {0} ELSE m.vocabulary_token_ids

\* the walk of _pick_randomly from entry i on; threshold = (draw / ProbScale) * total
RECURSIVE PickFrom(_, _, _, _, _)
PickFrom(transition_weights, total, draw, cumulative, i) ==
    IF i > Len(transition_weights)
    THEN \* next(iter(transition_weights))
         IF transition_weights = <<>> THEN Raise("StopIteration")
         ELSE Ok(transition_weights[1][1])
    ELSE LET sum == cumulative + transition_weights[i][2]
         IN  IF sum * ProbScale >= draw * total
             THEN Ok(transition_weights[i][1])
             ELSE PickFrom(transition_weights, total, draw, sum, i + 1)

PickRandomly(transition_weights, draw) ==
    PickFrom(transition_weights, SumCounts(transition_weights), draw, 0, 1)

\* context[-order:]
LastTokens(context, order) == SubSeq(context, Len(context) - order + 1, Len(context))

\* for order in range(min(max_order, len(context)), 0, -1), from order on.
\* The value is <<token, the order whose table was used, 0 for none>>.
RECURSIVE PredictFrom(_, _, _, _, _)
PredictFrom(m, context, order, draw, u) ==
    IF order <= 0
    THEN LET r == GetRandomToken(m, u)
         IN  IF r.ok THEN Ok(<<r.value, 0>>) ELSE r
    ELSE LET chain == IF HasKey(m.chains, order) THEN Get(m.chains, order) ELSE <<>>
             key   == LastTokens(context, order)
         IN  IF HasKey(chain, key)
             THEN LET r == PickRandomly(Get(chain, key), draw)
                  IN  IF r.ok THEN Ok(<<r.value, order>>) ELSE r
             ELSE PredictFrom(m, context, order - 1, draw, u)

\* a faulty variant, for comparison: the orders are tried from 1 upwards, the lowest match wins
RECURSIVE PredictUpFrom(_, _, _, _, _)
PredictUpFrom(m, context, order, draw, u) ==
    IF order > Min(m.max_order, Len(context))
    THEN LET r == GetRandomToken(m, u)
         IN  IF r.ok THEN Ok(<<r.value, 0>>) ELSE r
    ELSE LET chain == IF HasKey(m.chains, order) THEN Get(m.chains, order) ELSE <<>>
             key   == LastTokens(context, order)
         IN  IF HasKey(chain, key)
             THEN LET r == PickRandomly(Get(chain, key), draw)
                  IN  IF r.ok THEN Ok(<<r.value, order>>) ELSE r
             ELSE PredictUpFrom(m, context, order + 1, draw, u)

PredictLowestOrder(m, context, draw, u) == PredictUpFrom(m, context, 1, draw, u)

predict_next_token(m, context, draw, u) ==
    PredictFrom(m, context, Min(m.max_order, Len(context)), draw, u)

(***************************************************************************)
(* chain.py: continue_sentence.                                            *)
(***************************************************************************)
\* min(self._word_to_token, key=...): the first word of least distance
ClosestWord(m, word) ==
    LET w2t  == m.word_to_token
        d(i) == levenshtein_distance(word, w2t[i][1])
        best == CHOOSE i \in DOMAIN w2t :
                    /\ \A j \in DOMAIN w2t : d(i) <= d(j)
                    /\ \A j \in DOMAIN w2t : d(j) = d(i) => i <= j
    IN  w2t[best][1]

ResolveToken(m, word) ==
    IF HasKey(m.word_to_token, word) THEN Ok(Get(m.word_to_token, word))
    ELSE IF m.word_to_token = <<>> THEN Raise("ValueError")
    ELSE Ok(Get(m.word_to_token, ClosestWord(m, word)))

\* [self._resolve_token(w) for w in words]
RECURSIVE ResolveAll(_, _)
ResolveAll(m, words) ==
    IF words = <<>> THEN Ok(<<>>)
    ELSE LET first == ResolveToken(m, Head(words))
             rest  == ResolveAll(m, Tail(words))
         IN  IF ~first.ok THEN first
             ELSE IF ~rest.ok THEN rest
             ELSE Ok(<<first.value>> \o rest.value)

\* " ".join(words)
RECURSIVE Join(_)
Join(words) ==
    IF words = <<>> THEN <<>>
    ELSE IF Len(words) = 1 THEN words[1]
    ELSE words[1] \o <<" ">> \o Join(Tail(words))

\* predict_next_token reads context[-order:] for order <= max_order only, and
\* nothing else reads context: the model keeps its last max_order tokens, which
\* leaves min(max_order, len(context)) and every key as they are, and the
\* parity of its length (context_parity), which every append changes.
Window(m, context) ==
    IF Len(context) <= m.max_order THEN context ELSE LastTokens(context, m.max_order)

Parity(n) == n % 2

\* randomize_probability in units of 1/ProbScale^2; at 1.0 or above every
\* coin_flip is below it, whatever is added later
Saturate(p) == Min(p, ProbScale * ProbScale)

GenRecord(pc, sentence, context, generated_words, randomize_probability, end_token, result, error) ==
    [ pc |-> pc, sentence |-> sentence, context |-> context,
      context_parity |-> 0,
      generated_words |-> generated_words,
      randomize_probability |-> randomize_probability,
      end_token |-> end_token, result |-> result, error |-> error ]

GenIdle == GenRecord("idle", <<>>, <<>>, <<>>, 0, 0, <<>>, "none")

GenRaised(sentence, error) == GenRecord("raised", sentence, <<>>, <<>>, 0, 0, <<>>, error)

GenReturned(sentence, generated_words) ==
    GenRecord("returned", sentence, <<>>, <<>>, 0, 0, Join(generated_words), "none")

\* ValueError("Model has no vocabulary. Train before generating.")
NO_VOCABULARY == "ValueError: Model has no vocabulary"

\* process_message(sentence)[:-1]
SeedWords(sentence) ==
    LET all == process_message(sentence)
    IN  SubSeq(all, 1, Len(all) - 1)

\* a faulty variant, for comparison: the vocabulary is not looked at before the seed is resolved
ContinueSentenceEntryUnchecked(m, sentence, u) ==
    LET tokens == ResolveAll(m, SeedWords(sentence))
        random == GetRandomToken(m, u)
    IN  IF ~tokens.ok THEN GenRaised(sentence, tokens.error)
        ELSE IF tokens.value = <<>> /\ ~random.ok THEN GenRaised(sentence, random.error)
        ELSE IF ~HasKey(m.word_to_token, END_MARKER) THEN GenRaised(sentence, "KeyError")
        ELSE LET context == IF tokens.value = <<>> THEN <<random.value>> ELSE tokens.value
             IN  [ GenRecord("loop", sentence, Window(m, context), <<>>,
                             Saturate(m.generation_config.randomize_probability_base
                                         * ProbScale),
                             Get(m.word_to_token, END_MARKER), <<>>, "none")
                   EXCEPT !.context_parity = Parity(Len(context)) ]

\* continue_sentence up to the while loop, u being the pick of rng.choice
ContinueSentenceEntry(m, sentence, u) ==
    IF m.word_to_token = <<>> THEN GenRaised(sentence, NO_VOCABULARY)
    ELSE LET all    == process_message(sentence)
             words  == SubSeq(all, 1, Len(all) - 1)
             tokens == ResolveAll(m, words)
             random == GetRandomToken(m, u)
         IN  IF ~tokens.ok THEN GenRaised(sentence, tokens.error)
             ELSE IF tokens.value = <<>> /\ ~random.ok THEN GenRaised(sentence, random.error)
             ELSE IF ~HasKey(m.word_to_token, END_MARKER) THEN GenRaised(sentence, "KeyError")
             ELSE LET context == IF tokens.value = <<>> THEN <<random.value>>
                                 ELSE tokens.value
                  IN  [ GenRecord("loop", sentence, Window(m, context), <<>>,
                                  Saturate(m.generation_config.randomize_probability_base
                                              * ProbScale),
                                  Get(m.word_to_token, END_MARKER), <<>>, "none")
                        EXCEPT !.context_parity = Parity(Len(context)) ]

\* a faulty variant, for comparison: the loop runs while len(generated_words) <= max_length
LoopConditionInclusive(m, g) == Len(g.generated_words) <= m.generation_config.max_length

\* while len(generated_words) < cfg.max_length
LoopCondition(m, g) == Len(g.generated_words) < m.generation_config.max_length

\* a faulty variant, for comparison: <end> is appended to the output like any other token
LoopBodyAppendingEnd(m, g, coin_flip, u, pick, grow, retry) ==
    LET cfg    == m.generation_config
        random == coin_flip * ProbScale < g.randomize_probability
        chosen == IF random THEN GetRandomToken(m, u)
                  ELSE LET r == predict_next_token(m, g.context, pick, u)
                       IN  IF r.ok THEN Ok(r.value[1]) ELSE r
    IN  IF ~chosen.ok THEN GenRaised(g.sentence, chosen.error)
        ELSE [g EXCEPT
                !.context = Window(m, Append(g.context, chosen.value)),
                !.context_parity = Parity(g.context_parity + 1),
                !.generated_words =
                    Append(g.generated_words, Get(m.token_to_word, chosen.value))]

\* one iteration of the while loop, with the values the rng draws: coin_flip,
\* the pick of rng.choice (u), the draw of _pick_randomly (pick), the draw that
\* grows randomize_probability (grow) and the retry draw (retry)
LoopBody(m, g, coin_flip, u, pick, grow, retry) ==
    LET cfg    == m.generation_config
        random == coin_flip * ProbScale < g.randomize_probability
        chosen == IF random THEN GetRandomToken(m, u)
                  ELSE LET r == predict_next_token(m, g.context, pick, u)
                       IN  IF r.ok THEN Ok(r.value[1]) ELSE r
        base   == IF random THEN cfg.randomize_probability_base * ProbScale
                  ELSE g.randomize_probability
        grown  == Saturate(base + grow * cfg.randomize_probability_increment)
    IN  IF ~chosen.ok THEN GenRaised(g.sentence, chosen.error)
        ELSE LET next_token == chosen.value
                 context    == Window(m, Append(g.context, next_token))
             IN  IF next_token = g.end_token
                 THEN IF /\ Len(g.generated_words) < cfg.min_length
                         /\ retry < cfg.short_sentence_retry_probability
                      THEN \* continue
                           [g EXCEPT !.context = context,
                                     !.context_parity = Parity(g.context_parity + 1),
                                     !.randomize_probability = grown]
                      ELSE \* break, and the return that follows it
                           GenReturned(g.sentence, g.generated_words)
                 ELSE IF ~HasKey(m.token_to_word, next_token)
                      THEN GenRaised(g.sentence, "KeyError")
                 ELSE [g EXCEPT !.context = context,
                                !.context_parity = Parity(g.context_parity + 1),
                                !.randomize_probability = grown,
                                !.generated_words =
                                    Append(g.generated_words,
                                           Get(m.token_to_word, next_token))]

(***************************************************************************)
(* chain.py: what the reading methods leave of the MarkovChain.  None of   *)
(* _resolve_token, tokenize_sentence, predict_next_token, _get_random_token *)
(* and continue_sentence assigns to a field of self or calls a method that *)
(* does: tokens, context and generated_words are locals, context is a copy *)
(* (tokens[:]), and self._chains.get(order, {}) stores no default.         *)
(***************************************************************************)
\* a faulty variant, for comparison: an unknown word is added to the vocabulary
ResolveTokenInserting(m, word) ==
    IF HasKey(m.word_to_token, word) THEN m ELSE AddAsToken(m, word)

\* self after _resolve_token(word)
ResolveTokenSelf(m, word) == m

\* self after [self._resolve_token(w) for w in words]; a call that raises ends it
RECURSIVE ResolveAllSelf(_, _)
ResolveAllSelf(m, words) ==
    IF words = <<>> THEN m
    ELSE IF ~ResolveToken(m, Head(words)).ok THEN m
    ELSE ResolveAllSelf(ResolveTokenSelf(m, Head(words)), Tail(words))

\* tokenize_sentence(sentence)
tokenize_sentence(m, sentence) == ResolveAll(m, process_message(sentence))

\* self after tokenize_sentence(sentence)
TokenizeSentenceSelf(m, sentence) == ResolveAllSelf(m, process_message(sentence))

\* self after predict_next_token(context)
PredictNextTokenSelf(m, context) == m

\* if not tokens: the seed context is drawn from the vocabulary
SeedsAtRandom(m, sentence) ==
    /\ m.word_to_token # <<>>
    /\ LET tokens == ResolveAll(m, SeedWords(sentence))
       IN  tokens.ok /\ tokens.value = <<>>

\* the number of calls of self._rng that continue_sentence makes before its loop
EntryDraws(m, sentence) == IF SeedsAtRandom(m, sentence) THEN 1 ELSE 0

\* self after continue_sentence has reached its loop, or raised before it
ContinueSentenceEntrySelf(m, sentence) ==
    IF m.word_to_token = <<>> THEN m ELSE ResolveAllSelf(m, SeedWords(sentence))

\* self after one iteration of the loop
LoopBodySelf(m, g, coin_flip) ==
    IF coin_flip * ProbScale < g.randomize_probability THEN m
    ELSE PredictNextTokenSelf(m, g.context)

(***************************************************************************)
(* serialization.py.  A file is unreadable (read_text raises OSError), or  *)
(* holds text that is no JSON (json.loads raises JSONDecodeError), or      *)
(* holds a JSON object: a dict whose field names are strings of the model  *)
(* and whose other strings are sequences of characters.  json.dumps and    *)
(* json.loads are the standard library's and keep such a dict, its order   *)
(* included; the conversions the repository makes are modelled below.      *)
(***************************************************************************)
VERSION == 1

LOAD_ERROR == "ValueError: Failed to load model"

\* MarkovChain(...) without generation_config: GenerationConfig()
DEFAULT_GENERATION_CONFIG == "GenerationConfig()"

Unreadable == [kind |-> "unreadable"]

Malformed == [kind |-> "malformed"]

JsonFile(data) == [kind |-> "json", data |-> data]

\* str(n) for n >= 0
RECURSIVE IntToStr(_)
IntToStr(n) ==
    IF n < 10 THEN <<DIGITS[n + 1]>>
    ELSE Append(IntToStr(n \div 10), DIGITS[(n % 10) + 1])

DigitValue(c) == (CHOOSE d \in DOMAIN DIGITS : DIGITS[d] = c) - 1

RECURSIVE DigitsValue(_)
DigitsValue(str) ==
    IF str = <<>> THEN 0
    ELSE 10 * DigitsValue(SubSeq(str, 1, Len(str) - 1)) + DigitValue(str[Len(str)])

\* int(str) for a string: decimal digits (signs, blanks and underscores,
\* which int() also reads, are in no string of the model)
ToInt(str) ==
    IF str # <<>> /\ Range(str) \subseteq DigitChars THEN Ok(DigitsValue(str))
    ELSE Raise("ValueError: invalid literal for int()")

\* int(n) for a JSON number, which the ids of word_to_token are in every file
\* of the model
NumberToInt(n) == Ok(n)

\* a faulty variant, for comparison: the ids of a context are joined with nothing between them
RECURSIVE JoinIdsGlued(_)
JoinIdsGlued(context) ==
    IF context = <<>> THEN <<>>
    ELSE IntToStr(Head(context)) \o JoinIdsGlued(Tail(context))

\* ",".join(str(t) for t in context)
RECURSIVE JoinIds(_)
JoinIds(context) ==
    IF context = <<>> THEN <<>>
    ELSE IF Len(context) = 1 THEN IntToStr(context[1])
    ELSE IntToStr(context[1]) \o <<",">> \o JoinIds(Tail(context))

\* str.split(","), from position i on
RECURSIVE SplitCommaFrom(_, _, _)
SplitCommaFrom(str, i, cur) ==
    IF i > Len(str) THEN <<cur>>
    ELSE IF str[i] = "," THEN <<cur>> \o SplitCommaFrom(str, i + 1, <<>>)
    ELSE SplitCommaFrom(str, i + 1, Append(cur, str[i]))

\* a dict comprehension {key(p): value(p) for p in pairs}: a key met again
\* keeps its place and takes the later value
RECURSIVE DictOf(_)
DictOf(pairs) ==
    IF pairs = <<>> THEN <<>>
    ELSE LET last == pairs[Len(pairs)]
         IN  Put(DictOf(SubSeq(pairs, 1, Len(pairs) - 1)), last[1], last[2])

\* the first exception of a sequence of outcomes, or all their values
RECURSIVE Collect(_)
Collect(outcomes) ==
    IF outcomes = <<>> THEN Ok(<<>>)
    ELSE IF ~Head(outcomes).ok THEN Head(outcomes)
    ELSE LET rest == Collect(Tail(outcomes))
         IN  IF ~rest.ok THEN rest ELSE Ok(<<Head(outcomes).value>> \o rest.value)

\* {str(token): count for token, count in transitions.items()}
SaveTransitions(transitions) ==
    DictOf([i \in DOMAIN transitions |->
                <<IntToStr(transitions[i][1]), transitions[i][2]>>])

\* serialized_order of save
SaveOrder(chain_data) ==
    DictOf([i \in DOMAIN chain_data |->
                <<JoinIds(chain_data[i][1]), SaveTransitions(chain_data[i][2])>>])

\* the data save writes
SaveData(chain) ==
    << <<"version", VERSION>>,
       <<"training_config", << <<"max_order", chain.max_order>> >> >>,
       <<"word_to_token", chain.word_to_token>>,
       <<"chains", DictOf([i \in DOMAIN chain.chains |->
                              <<IntToStr(chain.chains[i][1]),
                                SaveOrder(chain.chains[i][2])>>])>> >>

\* {word: int(token_id) for word, token_id in data["word_to_token"].items()}
LoadWordToToken(items) ==
    LET ids == Collect([i \in DOMAIN items |-> NumberToInt(items[i][2])])
    IN  IF ~ids.ok THEN ids
        ELSE Ok(DictOf([i \in DOMAIN items |-> <<items[i][1], ids.value[i]>>]))

\* tuple(int(t) for t in context_str.split(","))
LoadContext(context_str) ==
    LET parts == SplitCommaFrom(context_str, 1, <<>>)
    IN  Collect([i \in DOMAIN parts |-> ToInt(parts[i])])

\* {int(token): count for token, count in transitions.items()}
LoadTransitions(transitions) ==
    LET tokens == Collect([i \in DOMAIN transitions |-> ToInt(transitions[i][1])])
    IN  IF ~tokens.ok THEN tokens
        ELSE Ok(DictOf([i \in DOMAIN transitions |->
                           <<tokens.value[i], transitions[i][2]>>]))

\* chains[order][context] = {...} for one item of chain_data
LoadItem(item) ==
    LET context == LoadContext(item[1])
    IN  IF ~context.ok THEN context
        ELSE LET transitions == LoadTransitions(item[2])
             IN  IF ~transitions.ok THEN transitions
                 ELSE Ok(<<context.value, transitions.value>>)

\* the inner loop of load
LoadOrder(chain_data) ==
    LET items == Collect([i \in DOMAIN chain_data |-> LoadItem(chain_data[i])])
    IN  IF ~items.ok THEN items ELSE Ok(DictOf(items.value))

\* the outer loop of load: chains[int(order_str)] = {} and then its items
LoadChains(chains_data) ==
    LET each == [i \in DOMAIN chains_data |->
                    LET o == ToInt(chains_data[i][1])
                    IN  IF ~o.ok THEN o
                        ELSE LET c == LoadOrder(chains_data[i][2])
                             IN  IF ~c.ok THEN c ELSE Ok(<<o.value, c.value>>)]
        all  == Collect(each)
    IN  IF ~all.ok THEN all ELSE Ok(DictOf(all.value))

SetMax(S) == CHOOSE x \in S : \A y \in S : y <= x

\* max(word_to_token.values()) + 1
NextTokenId(word_to_token) ==
    IF word_to_token = <<>> THEN Raise("ValueError: max() arg is an empty sequence")
    ELSE Ok(SetMax(Values(word_to_token)) + 1)

\* training_config of load, and the MarkovChain load returns
LoadReturn(data, word_to_token, current_token_id, chains) ==
    IF ~HasKey(data, "training_config") THEN Raise("KeyError")
    ELSE IF ~HasKey(Get(data, "training_config"), "max_order") THEN Raise("KeyError")
    ELSE Ok([ max_order |-> Get(Get(data, "training_config"), "max_order"),
              generation_config |-> DEFAULT_GENERATION_CONFIG,
              word_to_token |-> word_to_token,
              token_to_word |->
                  DictOf([i \in DOMAIN word_to_token |->
                             <<word_to_token[i][2], word_to_token[i][1]>>]),
              vocabulary_token_ids |-> Values(word_to_token),
              chains |-> chains,
              current_token_id |-> current_token_id ])

\* load from its chains loop on, chains being what the loop leaves
LoadWithChains(data, word_to_token, current_token_id, chains) ==
    IF ~chains.ok THEN chains
    ELSE LoadReturn(data, word_to_token, current_token_id, chains.value)

\* load from current_token_id on, next being max(...) + 1
LoadWithNextId(data, word_to_token, next) ==
    IF ~next.ok THEN next
    ELSE IF ~HasKey(data, "chains") THEN Raise("KeyError")
    ELSE LoadWithChains(data, word_to_token, next.value, LoadChains(Get(data, "chains")))

\* load from token_to_word on, w2t being the word_to_token comprehension
LoadWithVocabulary(data, w2t) ==
    IF ~w2t.ok THEN w2t
    ELSE LoadWithNextId(data, w2t.value, NextTokenId(w2t.value))

\* load(filepath): the MarkovChain it returns, or the exception it raises
Load(file) ==
    IF file.kind # "json" THEN Raise(LOAD_ERROR)
    ELSE IF ~HasKey(file.data, "word_to_token") THEN Raise("KeyError")
    ELSE LoadWithVocabulary(file.data, LoadWordToToken(Get(file.data, "word_to_token")))

(***************************************************************************)
(* The file at filepath and the calls that use it.                         *)
(*   file, origin   what the file holds, and who wrote it                  *)
(*   load, read     how the last load call ended, and the file it read     *)
(*   loaded, error  the MarkovChain it returned, or the exception raised   *)
(*   pick           the last _pick_randomly call: its argument and outcome *)
(***************************************************************************)
NoPick == [outcome |-> "none", weights |-> <<>>, draw |-> 0, token |-> 0, error |-> "none"]

IoIdle ==
    [ file |-> Unreadable, origin |-> "none",
      load |-> "none", read |-> Unreadable, read_origin |-> "none",
      loaded |-> <<>>, error |-> "none",
      pick |-> NoPick ]

(***************************************************************************)
(* Inputs of the training specification.                                   *)
(***************************************************************************)
\* "a b", "a b a a a", "<end>" and the empty message
TrainMessages ==
    { <<"a", " ", "b">>,
      <<"a", " ", "b", " ", "a", " ", "a", " ", "a">>,
      END_MARKER,
      <<>> }

SeqsUpTo(S, n) == UNION {[1..k -> S] : k \in 0..n}

RECURSIVE Flatten(_)
Flatten(lists) == IF lists = <<>> THEN <<>> ELSE Head(lists) \o Flatten(Tail(lists))

\* GenerationConfig, its probabilities in units of 1/ProbScale
TrainingRunConfig ==
    [ max_length |-> 2, min_length |-> 1,
      randomize_probability_base |-> 0,
      randomize_probability_increment |-> 0,
      short_sentence_retry_probability |-> 1 ]

(***************************************************************************)
(* Spec: a MarkovChain is constructed and trained by add_messages calls.   *)
(***************************************************************************)
Init ==
    /\ \E max_order \in 1..MaxOrder : model = NewMarkovChain(max_order, TrainingRunConfig)
    /\ history = <<>>
    /\ gen = GenIdle
    /\ io = IoIdle

\* MarkovChain.add_messages(messages)
AddMessages ==
    /\ Len(history) < MaxCalls
    /\ \E messages \in SeqsUpTo(TrainMessages, MaxTrained - Len(Flatten(history))) :
          /\ model' = add_messages(model, messages)
          /\ history' = Append(history, messages)
    /\ UNCHANGED <<gen, io>>

Next == AddMessages

Spec == Init /\ [][Next]_vars

(***************************************************************************)
(* Inputs of the generation specifications: training histories (a list of  *)
(* message lists, one per add_messages call), seeds and configurations.    *)
(***************************************************************************)
\* no training; ["<end>"]; ["a b"] then ["a a"]
GenCorpora ==
    { <<>>,
      << <<END_MARKER>> >>,
      << << <<"a", " ", "b">> >>, << <<"a", " ", "a">> >> >> }

\* "", "a" and "e b" ("e" is in no vocabulary)
Seeds == { <<>>, <<"a">>, <<"e", " ", "b">> }

GenerationConfigs ==
    { [ max_length |-> l, min_length |-> n,
        randomize_probability_base |-> b[1],
        randomize_probability_increment |-> b[2],
        short_sentence_retry_probability |-> q ] :
      l \in 0..MaxLength, n \in {0, MaxLength},
      b \in {<<0, 0>>, <<1, 1>>}, q \in {0, 1, ProbScale} }

\* the model a sequence of add_messages calls leaves
RECURSIVE TrainAll(_, _)
TrainAll(m, calls) ==
    IF calls = <<>> THEN m
    ELSE TrainAll(add_messages(m, Head(calls)), Tail(calls))

(***************************************************************************)
(* GenSpec: a constructed and trained MarkovChain runs continue_sentence   *)
(* calls, one loop iteration per step.                                     *)
(***************************************************************************)
GenInit ==
    /\ \E calls \in GenCorpora, max_order \in 1..MaxOrder, cfg \in GenerationConfigs :
          /\ history = calls
          /\ model = TrainAll(NewMarkovChain(max_order, cfg), calls)
    /\ gen = GenIdle
    /\ io = IoIdle

\* MarkovChain.continue_sentence(sentence), to the head of its loop
ContinueSentence ==
    /\ gen.pc # "loop"
    /\ \E sentence \in Seeds, u \in RandomChoices(model) :
          gen' = ContinueSentenceEntry(model, sentence, u)
    /\ UNCHANGED <<model, history, io>>

\* one iteration of the loop of continue_sentence
LoopIteration ==
    /\ gen.pc = "loop"
    /\ LoopCondition(model, gen)
    /\ \E coin_flip, pick, grow, retry \in Draws, u \in RandomChoices(model) :
          gen' = LoopBody(model, gen, coin_flip, u, pick, grow, retry)
    /\ UNCHANGED <<model, history, io>>

\* the loop condition fails: return " ".join(generated_words)
LoopExit ==
    /\ gen.pc = "loop"
    /\ ~LoopCondition(model, gen)
    /\ gen' = GenReturned(gen.sentence, gen.generated_words)
    /\ UNCHANGED <<model, history, io>>

GenNext == ContinueSentence \/ LoopIteration \/ LoopExit

GenSpec == GenInit /\ [][GenNext]_vars

\* the interpreter keeps running a call that has started
FairGenSpec == GenSpec /\ WF_vars(LoopIteration) /\ WF_vars(LoopExit)

(***************************************************************************)
(* PredictSpec: predict_next_token calls on a trained MarkovChain.         *)
(***************************************************************************)
PredictInit ==
    /\ \E calls \in GenCorpora, max_order \in 1..MaxOrder :
          /\ history = calls
          /\ model = TrainAll(NewMarkovChain(max_order, TrainingRunConfig), calls)
    /\ gen = GenIdle
    /\ io = IoIdle

\* the token ids a caller may pass: those of the vocabulary and one that is not
CallerTokens == model.vocabulary_token_ids \cup {model.current_token_id}

\* MarkovChain.predict_next_token(context)
PredictNextToken ==
    /\ gen.pc = "idle"
    /\ \E context \in SeqsUpTo(CallerTokens, MaxContext),
          pick \in Draws, u \in RandomChoices(model) :
          LET r == predict_next_token(model, context, pick, u)
          IN  gen' = [ pc |-> "predicted", context |-> context,
                       next_token |-> IF r.ok THEN r.value[1] ELSE 0,
                       order |-> IF r.ok THEN r.value[2] ELSE 0,
                       error |-> IF r.ok THEN "none" ELSE r.error ]
    /\ UNCHANGED <<model, history, io>>

\* the call has returned (or raised) and the caller goes on
PredictReturn ==
    /\ gen.pc = "predicted"
    /\ gen' = GenIdle
    /\ UNCHANGED <<model, history, io>>

PredictNext == PredictNextToken \/ PredictReturn

PredictSpec == PredictInit /\ [][PredictNext]_vars

(***************************************************************************)
(* ReadSpec: a constructed MarkovChain, trained or not, serves any         *)
(* sequence of continue_sentence, predict_next_token, tokenize_sentence    *)
(* and _resolve_token calls.  Single-threaded: a call starts when no loop  *)
(* is running.  gen holds the last call: its name (call), the locals of a  *)
(* continue_sentence call and the rng calls it made before its loop        *)
(* (entry_draws), or the argument and the outcome of another call.         *)
(***************************************************************************)
\* the training histories of GenCorpora, and one add_messages([]) call
ReadCorpora == GenCorpora \cup { << <<>> >> }

\* the seeds of Seeds, and "http" and "http://x ," whose words are all dropped
ReadSeeds ==
    Seeds \cup { HTTP_PREFIX, HTTP_PREFIX \o <<":", "/", "/", "x", " ", ",">> }

\* the words _resolve_token is called with: "a", "e" (in no vocabulary), "<end>"
ReadWords == { <<"a">>, <<"e">>, END_MARKER }

\* GenerationConfig: max_length at its bound, no minimum, and the random
\* branch of the loop never or sometimes taken
ReadConfigs ==
    { cfg \in GenerationConfigs :
        /\ cfg.max_length = MaxLength
        /\ cfg.min_length = 0
        /\ cfg.short_sentence_retry_probability = 0 }

\* the contexts predict_next_token is called with: at most MaxOrder ids, each
\* the id of <start>, the id after it, or one that is in no vocabulary
ReadContexts ==
    SeqsUpTo({ t \in CallerTokens : t <= 1 \/ t = model.current_token_id }, MaxOrder)

\* the record of a continue_sentence call
ContinueCall(g, entry_draws) ==
    [ f \in DOMAIN g \cup {"call", "entry_draws"} |->
        IF f = "call" THEN "continue_sentence"
        ELSE IF f = "entry_draws" THEN entry_draws
        ELSE g[f] ]

\* the locals of a continue_sentence call, as LoopBody takes them
Locals(g) == [ f \in DOMAIN GenIdle |-> g[f] ]

\* the record of a call of another method that has returned or raised
OtherCall(call, argument, r) ==
    [ pc |-> IF r.ok THEN "returned" ELSE "raised", call |-> call,
      argument |-> argument,
      value |-> IF r.ok THEN r.value ELSE <<>>,
      error |-> IF r.ok THEN "none" ELSE r.error ]

\* no call has been made
ReadIdle == [ pc |-> "idle", call |-> "none" ]

ReadInit ==
    /\ \E calls \in ReadCorpora, max_order \in 1..MaxOrder, cfg \in ReadConfigs :
          /\ history = calls
          /\ model = TrainAll(NewMarkovChain(max_order, cfg), calls)
    /\ gen = ReadIdle
    /\ io = IoIdle

\* MarkovChain.continue_sentence(sentence), to the head of its loop
ReadContinueSentence ==
    /\ gen.pc # "loop"
    /\ \E sentence \in ReadSeeds, u \in RandomChoices(model) :
          /\ gen' = ContinueCall(ContinueSentenceEntry(model, sentence, u),
                                 EntryDraws(model, sentence))
          /\ model' = ContinueSentenceEntrySelf(model, sentence)
    /\ UNCHANGED <<history, io>>

\* one iteration of the loop of continue_sentence
ReadLoopIteration ==
    /\ gen.pc = "loop"
    /\ LoopCondition(model, Locals(gen))
    /\ \E coin_flip, pick, grow, retry \in Draws, u \in RandomChoices(model) :
          /\ gen' = ContinueCall(LoopBody(model, Locals(gen), coin_flip, u, pick, grow, retry),
                                 gen.entry_draws)
          /\ model' = LoopBodySelf(model, Locals(gen), coin_flip)
    /\ UNCHANGED <<history, io>>

\* the loop condition fails: return " ".join(generated_words)
ReadLoopExit ==
    /\ gen.pc = "loop"
    /\ ~LoopCondition(model, Locals(gen))
    /\ gen' = ContinueCall(GenReturned(gen.sentence, gen.generated_words), gen.entry_draws)
    /\ UNCHANGED <<model, history, io>>

\* MarkovChain.predict_next_token(context)
ReadPredictNextToken ==
    /\ gen.pc # "loop"
    /\ \E context \in ReadContexts, pick \in Draws, u \in RandomChoices(model) :
          /\ gen' = OtherCall("predict_next_token", context,
                              predict_next_token(model, context, pick, u))
          /\ model' = PredictNextTokenSelf(model, context)
    /\ UNCHANGED <<history, io>>

\* MarkovChain.tokenize_sentence(sentence)
ReadTokenizeSentence ==
    /\ gen.pc # "loop"
    /\ \E sentence \in ReadSeeds :
          /\ gen' = OtherCall("tokenize_sentence", sentence,
                              tokenize_sentence(model, sentence))
          /\ model' = TokenizeSentenceSelf(model, sentence)
    /\ UNCHANGED <<history, io>>

\* MarkovChain._resolve_token(word)
ReadResolveToken ==
    /\ gen.pc # "loop"
    /\ \E word \in ReadWords :
          /\ gen' = OtherCall("_resolve_token", word, ResolveToken(model, word))
          /\ model' = IF ResolveToken(model, word).ok THEN ResolveTokenSelf(model, word)
                      ELSE model
    /\ UNCHANGED <<history, io>>

ReadNext ==
    \/ ReadContinueSentence
    \/ ReadLoopIteration
    \/ ReadLoopExit
    \/ ReadPredictNextToken
    \/ ReadTokenizeSentence
    \/ ReadResolveToken

ReadSpec == ReadInit /\ [][ReadNext]_vars

(***************************************************************************)
(* PersistSpec: a trained MarkovChain is saved, files are put at filepath  *)
(* by others, load reads what is there, and _pick_randomly is called on    *)
(* the transition maps of the trained and of the loaded model.             *)
(***************************************************************************)
\* a well-formed file of a model trained on the empty message
ExternalData ==
    << <<"version", VERSION>>,
       <<"training_config", << <<"max_order", 1>> >> >>,
       <<"word_to_token", << <<START_MARKER, 0>>, <<END_MARKER, 1>> >> >>,
       <<"chains", << << <<"1">>, << << <<"0">>, << << <<"1">>, 1>> >> >> >> >> >> >> >>

\* data without one of its fields
Without(data, field) == SelectSeq(data, LAMBDA item : item[1] # field)

\* data with the value of one of its fields replaced
With(data, field, value) ==
    [i \in DOMAIN data |-> IF data[i][1] = field THEN <<field, value>> ELSE data[i]]

\* the files others may leave at filepath: no readable file, no JSON, JSON that
\* lacks a field, and JSON whose transition maps are empty or sum to zero
ExternalFiles ==
    { Unreadable, Malformed,
      JsonFile(Without(ExternalData, "version")),
      JsonFile(Without(ExternalData, "training_config")),
      JsonFile(With(ExternalData, "training_config", <<>>)),
      JsonFile(Without(ExternalData, "word_to_token")),
      JsonFile(Without(ExternalData, "chains")),
      JsonFile(With(ExternalData, "chains",
                    << << <<"1">>, << << <<"0">>, <<>> >> >> >> >>)),
      JsonFile(With(ExternalData, "chains",
                    << << <<"1">>,
                          << << <<"0">>, << << <<"1">>, 0>>, << <<"0">>, 0>> >> >> >> >> >>)) }

\* the training histories of GenCorpora and one of eleven words, whose last id
\* has two digits: ["a b d e h n p r s"]
PersistCorpora ==
    GenCorpora \cup
    { << << <<"a", " ", "b", " ", "d", " ", "e", " ", "h", " ", "n", " ", "p", " ",
              "r", " ", "s">> >> >> }

PersistInit ==
    /\ \E calls \in PersistCorpora, max_order \in 1..MaxOrder :
          /\ history = calls
          /\ model = TrainAll(NewMarkovChain(max_order, TrainingRunConfig), calls)
    /\ gen = GenIdle
    /\ io = IoIdle

\* save(model, filepath)
Save ==
    /\ io' = [io EXCEPT !.file = JsonFile(SaveData(model)), !.origin = "save"]
    /\ UNCHANGED <<model, history, gen>>

\* another program writes, removes or damages the file
WriteFile ==
    /\ \E file \in ExternalFiles :
          io' = [io EXCEPT !.file = file, !.origin = "external"]
    /\ UNCHANGED <<model, history, gen>>

\* the files and calls after a load call that ended as r
AfterLoad(f, r) ==
    [f EXCEPT !.load = IF r.ok THEN "returned" ELSE "raised",
              !.read = f.file,
              !.read_origin = f.origin,
              !.loaded = IF r.ok THEN r.value ELSE <<>>,
              !.error = IF r.ok THEN "none" ELSE r.error]

\* load(filepath)
LoadFile ==
    /\ io' = AfterLoad(io, Load(io.file))
    /\ UNCHANGED <<model, history, gen>>

\* the transition maps of a MarkovChain
TransitionMaps(m) ==
    UNION { Values(m.chains[o][2]) : o \in DOMAIN m.chains }

\* the record of a _pick_randomly call that ended as r
AfterPick(weights, draw, r) ==
    [ outcome |-> IF r.ok THEN "returned" ELSE "raised",
      weights |-> weights, draw |-> draw,
      token |-> IF r.ok THEN r.value ELSE 0,
      error |-> IF r.ok THEN "none" ELSE r.error ]

\* _pick_randomly(transition_weights) on a map of the trained or the loaded model
PickRandomlyCall ==
    /\ \E weights \in TransitionMaps(model) \cup
                      (IF io.load = "returned" THEN TransitionMaps(io.loaded) ELSE {}),
          draw \in Draws :
          io' = [io EXCEPT !.pick = AfterPick(weights, draw, PickRandomly(weights, draw))]
    /\ UNCHANGED <<model, history, gen>>

PersistNext == Save \/ WriteFile \/ LoadFile \/ PickRandomlyCall

PersistSpec == PersistInit /\ [][PersistNext]_vars

(***************************************************************************)
(* Training: what is checked.                                              *)
(***************************************************************************)
\* the words of the messages, one message after the other
RECURSIVE AllWordsOf(_)
AllWordsOf(messages) ==
    IF messages = <<>> THEN <<>>
    ELSE process_message(Head(messages)) \o AllWordsOf(Tail(messages))

\* the distinct words of a sequence, in the order of their first appearance
RECURSIVE FirstSeen(_)
FirstSeen(words) ==
    IF words = <<>> THEN <<>>
    ELSE LET before == FirstSeen(SubSeq(words, 1, Len(words) - 1))
             last   == words[Len(words)]
         IN  IF last \in Range(before) THEN before ELSE Append(before, last)

VocabularyIsBijection ==
    LET w2t == model.word_to_token
        t2w == model.token_to_word
        n   == Len(w2t)
        fs  == FirstSeen(AllWordsOf(Flatten(history)))
    IN  /\ \A i, j \in DOMAIN w2t : w2t[i][1] = w2t[j][1] => i = j
        /\ \A i, j \in DOMAIN w2t : w2t[i][2] = w2t[j][2] => i = j
        /\ \A i, j \in DOMAIN t2w : t2w[i][1] = t2w[j][1] => i = j
        /\ \A i \in DOMAIN w2t : HasKey(t2w, w2t[i][2]) /\ Get(t2w, w2t[i][2]) = w2t[i][1]
        /\ \A i \in DOMAIN t2w : HasKey(w2t, t2w[i][2]) /\ Get(w2t, t2w[i][2]) = t2w[i][1]
        /\ model.vocabulary_token_ids = 0..(n - 1)
        /\ Keys(t2w) = 0..(n - 1)
        /\ Values(w2t) = 0..(n - 1)
        /\ model.current_token_id = n
        /\ Len(fs) = n
        /\ \A i \in DOMAIN w2t : w2t[i] = <<fs[i], i - 1>>

IdsNeverChange ==
    [][\A w \in Keys(model.word_to_token) :
          /\ HasKey(model'.word_to_token, w)
          /\ Get(model'.word_to_token, w) = Get(model.word_to_token, w)]_vars

\* C1: after any sequence of add_messages calls the vocabulary is a bijection
\* between words and ids, the ids are exactly 0..n-1 and were handed out in
\* first-seen order, and a word keeps its id through every later call.
C1_VocabularyBijection == []VocabularyIsBijection /\ IdsNeverChange

\* a second call has added words to the vocabulary the first call left
C1_Witness ==
    /\ Len(history) = 2
    /\ history[1] # <<>>
    /\ Len(model.word_to_token) > Len(FirstSeen(AllWordsOf(history[1])))

\* the token ids of a trained message
TokensOf(message) ==
    LET words == process_message(message)
    IN  [i \in DOMAIN words |-> Get(model.word_to_token, words[i])]

\* the positions <<message, index>> of the training history at which the
\* tokens of context start and are followed by a token that satisfies Follows
Positions(context, Follows(_)) ==
    LET msgs == Flatten(history)
        k    == Len(context)
    IN  UNION { LET tokens == TokensOf(msgs[j])
                IN  { <<j, i>> : i \in { p \in 1..Len(tokens) :
                                            /\ p + k <= Len(tokens)
                                            /\ SubSeq(tokens, p, p + k - 1) = context
                                            /\ Follows(tokens[p + k]) } }
              : j \in DOMAIN msgs }

\* C2: every stored count of (context, successor), at every order of
\* 1..max_order, is a positive integer equal to the number of positions of the
\* trained messages where the context is immediately followed by the
\* successor, and the counts under a context sum to the number of positions
\* where the context is followed by any token.
C2_CountsAreOccurrences ==
    \A o \in Keys(model.chains) :
        /\ o \in 1..model.max_order
        /\ \A c \in Keys(Get(model.chains, o)) :
              LET transitions == Get(Get(model.chains, o), c)
              IN  /\ Len(c) = o
                  /\ \A i \in DOMAIN transitions :
                        /\ transitions[i][2] \in Nat \ {0}
                        /\ transitions[i][2] =
                               Cardinality(Positions(c, LAMBDA t : t = transitions[i][1]))
                  /\ SumCounts(transitions) =
                         Cardinality(Positions(c, LAMBDA t : TRUE))

\* an order-2 context seen in both of two calls, with a count above 1
C2_Witness ==
    /\ Len(history) = 2
    /\ history[1] # <<>> /\ history[2] # <<>>
    /\ HasKey(model.chains, 2)
    /\ \E c \in Keys(Get(model.chains, 2)) :
          \E count \in Values(Get(Get(model.chains, 2), c)) : count >= 2

\* dict equality, which does not look at the iteration order: the same keys,
\* none twice, and values that are Same under each key
SameDict(d, e, Same(_, _)) ==
    /\ Len(d) = Len(e)
    /\ Cardinality(Keys(d)) = Len(d)
    /\ Keys(d) = Keys(e)
    /\ \A k \in Keys(d) : Same(Get(d, k), Get(e, k))

\* the same orders, the same contexts at each order, and under each context
\* the same successors with the same counts
SameTables(m, n) ==
    SameDict(m.chains, n.chains,
             LAMBDA c1, c2 : SameDict(c1, c2,
                 LAMBDA t1, t2 : SameDict(t1, t2, LAMBDA a, b : a = b)))

\* the model one add_messages call builds from all messages trained so far
OnePass ==
    add_messages(NewMarkovChain(model.max_order, model.generation_config),
                 Flatten(history))

\* C3: training by several add_messages calls yields the same vocabulary ids
\* and, at every order, the same contexts, successors and counts as one
\* add_messages call on the concatenation of their message lists.
C3_TrainingIsAdditive ==
    /\ model.word_to_token = OnePass.word_to_token
    /\ model.token_to_word = OnePass.token_to_word
    /\ model.current_token_id = OnePass.current_token_id
    /\ SameTables(model, OnePass)

\* two non-empty calls whose tables equal the one-pass tables as maps while
\* the iteration order of some transition map differs from the one-pass order
C3_Witness ==
    /\ Len(history) = 2
    /\ history[1] # <<>> /\ history[2] # <<>>
    /\ model.chains # OnePass.chains

\* position p of the training history comes before position q
Before(p, q) == p[1] < q[1] \/ (p[1] = q[1] /\ p[2] < q[2])

\* the position of the training history at which next_token was first
\* inserted under context
FirstInsertion(context, next_token) ==
    LET at == Positions(context, LAMBDA t : t = next_token)
    IN  CHOOSE p \in at : \A q \in at : p = q \/ Before(p, q)

\* every transition map iterates by descending count
DescendingCounts ==
    \A o \in Keys(model.chains) :
        \A c \in Keys(Get(model.chains, o)) :
            LET transitions == Get(Get(model.chains, o), c)
            IN  \A i \in 1..(Len(transitions) - 1) :
                    transitions[i][2] >= transitions[i + 1][2]

\* C13: after every add_messages call every transition map iterates by
\* descending count, and successors of equal count come in the order in which
\* they were first inserted under the context over the whole training history.
C13_TiesByFirstInsertion ==
    \A o \in Keys(model.chains) :
        \A c \in Keys(Get(model.chains, o)) :
            LET transitions == Get(Get(model.chains, o), c)
            IN  \A i \in 1..(Len(transitions) - 1) :
                    \/ transitions[i][2] > transitions[i + 1][2]
                    \/ /\ transitions[i][2] = transitions[i + 1][2]
                       /\ Before(FirstInsertion(c, transitions[i][1]),
                                 FirstInsertion(c, transitions[i + 1][1]))

(***************************************************************************)
(* Generation: what is checked.                                            *)
(***************************************************************************)
\* str.split(" "): the pieces of a string between single spaces, from i on
RECURSIVE SplitSpacesFrom(_, _, _)
SplitSpacesFrom(str, i, cur) ==
    IF i > Len(str) THEN <<cur>>
    ELSE IF str[i] = " " THEN <<cur>> \o SplitSpacesFrom(str, i + 1, <<>>)
    ELSE SplitSpacesFrom(str, i + 1, Append(cur, str[i]))

\* the words of a returned string; the empty string holds none
WordsOfResult(str) == IF str = <<>> THEN <<>> ELSE SplitSpacesFrom(str, 1, <<>>)

\* C5: continue_sentence returns a string of at most max_length words, and at
\* every iteration of its loop at most max_length words have been generated.
C5_LengthBound ==
    /\ gen.pc = "loop" =>
          Len(gen.generated_words) <= model.generation_config.max_length
    /\ gen.pc = "returned" =>
          Len(WordsOfResult(gen.result)) <= model.generation_config.max_length

\* a call that returned exactly max_length words, with max_length at its bound
C5_Witness ==
    /\ gen.pc = "returned"
    /\ model.generation_config.max_length = MaxLength
    /\ Len(WordsOfResult(gen.result)) = MaxLength

\* C6: every run of the loop of continue_sentence eventually leaves the loop.
C6_AlwaysTerminates == (gen.pc = "loop") ~> (gen.pc # "loop")

\* the orders of 1..min(max_order, len(context)) whose table holds the last
\* tokens of the context as a key
MatchingOrders(context) ==
    { k \in 1..Min(model.max_order, Len(context)) :
        /\ HasKey(model.chains, k)
        /\ HasKey(Get(model.chains, k), LastTokens(context, k)) }

\* C7: predict_next_token uses the highest order k of min(max_order,
\* len(context)) down to 1 whose table has the last k tokens of the context as
\* a key, and returns a successor recorded under that key; with no such order
\* (an empty context included) it returns a member of the vocabulary id set.
C7_PredictFallsBackByOrder ==
    gen.pc = "predicted" =>
        LET matching == MatchingOrders(gen.context)
        IN  /\ model.vocabulary_token_ids # {} => gen.error = "none"
            /\ gen.error = "none" =>
                  IF matching # {}
                  THEN LET k == CHOOSE k \in matching : \A j \in matching : j <= k
                       IN  /\ gen.order = k
                           /\ gen.next_token \in
                                 Keys(Get(Get(model.chains, k), LastTokens(gen.context, k)))
                  ELSE /\ gen.order = 0
                       /\ gen.next_token \in model.vocabulary_token_ids

\* a context longer than max_order that matches at order 1 and at order 2, and
\* one that matches at no order
C7_Witness ==
    /\ gen.pc = "predicted"
    /\ gen.error = "none"
    /\ Len(gen.context) > model.max_order
    /\ MatchingOrders(gen.context) = {1, 2}
    /\ gen.order = 2

\* C8: on a model trained on at least one message continue_sentence never
\* raises, and returns known vocabulary words joined by single spaces, none of
\* them the <end> marker.
C8_ContinueReturnsKnownWords ==
    Flatten(history) # <<>> =>
        /\ gen.pc # "raised"
        /\ gen.error = "none"
        /\ gen.pc = "returned" =>
              LET words == WordsOfResult(gen.result)
              IN  /\ gen.result = Join(words)
                  /\ \A i \in DOMAIN words :
                        /\ words[i] \in Keys(model.word_to_token)
                        /\ words[i] # END_MARKER

\* a call seeded with an unknown word that returned two words
C8_Witness ==
    /\ Flatten(history) # <<>>
    /\ gen.pc = "returned"
    /\ gen.sentence = <<"e", " ", "b">>
    /\ Len(WordsOfResult(gen.result)) = 2

\* the vocabulary and the tables of a MarkovChain
TrainedState(m) ==
    <<m.word_to_token, m.token_to_word, m.vocabulary_token_ids,
      m.current_token_id, m.chains>>

\* C11: no continue_sentence, predict_next_token, tokenize_sentence or
\* _resolve_token call, in any sequence and with known or unknown words,
\* changes the word-to-token map, its inverse, the id set, the next-id
\* counter or a transition table.
C11_GenerationIsReadOnly == [][TrainedState(model') = TrainedState(model)]_vars

\* tokenize_sentence("e b") has returned ids on a model that has no word "e"
C11_Witness ==
    /\ gen.pc = "returned"
    /\ gen.call = "tokenize_sentence"
    /\ gen.argument = <<"e", " ", "b">>
    /\ Len(gen.value) = 4
    /\ ~HasKey(model.word_to_token, <<"e">>)
    /\ HasKey(model.word_to_token, <<"b">>)

\* C12: a continue_sentence call on a model whose vocabulary is empty raises
\* the no-vocabulary error before any call of the rng, has generated nothing,
\* and leaves the model as it was.
C12_EmptyVocabularyRaises ==
    [][(/\ gen.pc # "loop"
        /\ gen'.call = "continue_sentence"
        /\ model.word_to_token = <<>>) =>
           /\ gen'.pc = "raised"
           /\ gen'.error = NO_VOCABULARY
           /\ gen'.entry_draws = 0
           /\ gen'.generated_words = <<>>
           /\ gen'.result = <<>>
           /\ model' = model]_vars

\* continue_sentence was called on a model trained only by add_messages([])
C12_Witness ==
    /\ history = << <<>> >>
    /\ model.word_to_token = <<>>
    /\ gen.call = "continue_sentence"
    /\ gen.pc = "raised"

\* C14: for every seed process_message returns at least <start> and <end>,
\* <start> first and <end> last, so continue_sentence resolves at least the
\* <start> token and never draws its seed context from the vocabulary.
C14_SeedContextNeverEmpty ==
    gen.call = "continue_sentence" =>
        LET all == process_message(gen.sentence)
        IN  /\ Len(all) >= 2
            /\ all[1] = START_MARKER
            /\ all[Len(all)] = END_MARKER
            /\ SeedWords(gen.sentence)[1] = START_MARKER
            /\ ~SeedsAtRandom(model, gen.sentence)
            /\ gen.entry_draws = 0

\* continue_sentence("http") is in its loop: every word of the seed was
\* dropped and the context is the <start> token alone
C14_Witness ==
    /\ gen.call = "continue_sentence"
    /\ gen.pc = "loop"
    /\ gen.sentence = HTTP_PREFIX
    /\ Len(gen.generated_words) = 0
    /\ gen.context = <<Get(model.word_to_token, START_MARKER)>>

(***************************************************************************)
(* Persistence: what is checked.                                           *)
(***************************************************************************)
\* C4: save followed by load, for a model trained on at least one message,
\* returns a model with the same word-to-token map, the same inverse map and
\* id set, a next-id counter of the largest id plus one, and the same tables
\* at every order: the same contexts as tuples of integers, the same
\* successors in the same iteration order, the same counts.
C4_SaveLoadRoundTrip ==
    (io.load # "none" /\ io.read_origin = "save" /\ Flatten(history) # <<>>) =>
        /\ io.load = "returned"
        /\ io.loaded.word_to_token = model.word_to_token
        /\ SameDict(io.loaded.token_to_word, model.token_to_word, LAMBDA a, b : a = b)
        /\ io.loaded.vocabulary_token_ids = model.vocabulary_token_ids
        /\ io.loaded.current_token_id = SetMax(Values(model.word_to_token)) + 1
        /\ io.loaded.current_token_id = model.current_token_id
        /\ io.loaded.max_order = model.max_order
        /\ io.loaded.chains = model.chains

\* a model with an order-2 table, a context of several successors that are
\* not in the order of their ids, and a count of two was saved and loaded
C4_Witness ==
    /\ io.load = "returned" /\ io.read_origin = "save"
    /\ HasKey(model.chains, 2) /\ Get(model.chains, 2) # <<>>
    /\ \E weights \in TransitionMaps(model) :
          Len(weights) >= 2 /\ weights[1][1] > weights[2][1]
    /\ \E weights \in TransitionMaps(model) : 2 \in Values(weights)

\* the file is JSON that lacks version, training_config.max_order,
\* word_to_token or chains
LacksRequiredField(file) ==
    /\ file.kind = "json"
    /\ \/ \E field \in {"version", "training_config", "word_to_token", "chains"} :
             ~HasKey(file.data, field)
       \/ /\ HasKey(file.data, "training_config")
          /\ ~HasKey(Get(file.data, "training_config"), "max_order")

\* C9: load raises the load error, and returns no model, whenever the file is
\* unreadable, is no JSON, or is JSON that lacks a required field.
C9_LoadReportsLoadError ==
    (io.load # "none" /\ (io.read.kind # "json" \/ LacksRequiredField(io.read))) =>
        /\ io.load = "raised"
        /\ io.error = LOAD_ERROR

\* C10: _pick_randomly never raises and returns an entry of the map it is
\* given, the first entry when no cumulative sum reaches the threshold.
C10_PickNeverRaises ==
    io.pick.outcome # "none" =>
        /\ io.pick.outcome = "returned"
        /\ io.pick.token \in Keys(io.pick.weights)

====
